---- MODULE Spec2Model ----
(***************************************************************************)
(* View-state aggregation of ng-component-ideas:                           *)
(*   viewData$ = combineLatest(selectUser(), selectTopics(),               *)
(*                             selectFriends())                            *)
(*               .pipe(map(([user, topics, friends]) =>                    *)
(*                          ({user, topics, friends})))                    *)
(* consumed in the template by  *ngIf="viewData$ | async as viewData".     *)
(* The model has the three producers (argument positions 1..3), the        *)
(* combineLatest subscriber (latest value per position, attached inner     *)
(* listeners), the map projection, and the async pipe (subscribe on        *)
(* render, markForCheck on every value, unsubscribe on destroy).           *)
(***************************************************************************)
EXTENDS Integers, Sequences, FiniteSets, TLC

VARIABLES
    source,       \* "DataService": the of(...) producers; "store": long-lived producers
    pending,      \* per producer: what an of(...) producer has still to emit
    ended,        \* per producer: "" while running, "complete", or its error
    sub,          \* subscription handle: "none", "open", "closed"
    closedBy,     \* why the handle is closed: "", "release", "error", "complete"
    attached,     \* per producer: combineLatest's inner listener is attached
    values,       \* combineLatest's latest value per argument position, or NONE
    active,       \* combineLatest: inner subscriptions that have not completed
    latestValue,  \* async pipe: the value the template sees
    marks,        \* async pipe: number of markForCheck() calls
    out,          \* history: the composites delivered to the consumer
    recv,         \* history: the producer values delivered to the aggregator
    consumerErr,  \* the error the consumer received, or NONE
    consumerDone, \* the consumer received complete
    releaseCalls, \* number of unsubscribe() calls made on the handle
    teardowns,    \* number of times the handle's teardown (detach all) has run
    dropped       \* history: values emitted to a listener that was detached

vars == <<source, pending, ended, sub, closedBy, attached, values, active,
          latestValue, marks, out, recv, consumerErr, consumerDone, releaseCalls,
          teardowns, dropped>>

\* the state of the aggregation and of its consumer
aggVars == <<sub, closedBy, attached, values, active, latestValue, marks, out,
             recv, consumerErr, consumerDone, teardowns>>

\* ------------------------------------------------------------------ bounds
MaxEmit == 4
MaxRelease == 2

\* ------------------------------------------------------------ data service
\* an absent value (NONE); a present value v is held as <<v>>
NONE == << >>
Some(v) == << v >>

\* no error received
NOERR == "NONE"

N == 3
Pos == 1..N

selectUser == [id |-> 1, name |-> "Mark"]

selectFriends == << [id |-> 2, name |-> "Fred"], [id |-> 3, name |-> "Chuck"] >>

selectTopics ==
    << [id |-> 1, name |-> "rxjs"], [id |-> 2, name |-> "ngrx"],
       [id |-> 3, name |-> "components"], [id |-> 4, name |-> "router"],
       [id |-> 5, name |-> "cli"], [id |-> 6, name |-> "testing"] >>

\* the arguments of combineLatest, in order
Producers == << selectUser, selectTopics, selectFriends >>

\* values a long-lived producer (this.store.select...()) may emit per position
StoreValues ==
    << {selectUser, [id |-> 1, name |-> "Marcus"]},
       {selectTopics, << [id |-> 1, name |-> "rxjs"] >>},
       {selectFriends} >>

\* errors a long-lived producer may fail with
Errors == {"boom"}

\* ------------------------------------------------------------ notifications
Next_(v) == [kind |-> "N", val |-> v]
Error_(e) == [kind |-> "E", val |-> e]
Complete_ == [kind |-> "C"]


\* of(x): emits x, then completes
of(x) == << Next_(x), Complete_ >>

Last(s) == s[Len(s)]

\* ------------------------------------------------------------ combineLatest
NoValues == [p \in Pos |-> NONE]

\* variant: the first value of a position is kept, later ones are ignored
NotifyNextKeepFirst(vals, i, v) ==
    IF vals[i] = NONE THEN [vals EXCEPT ![i] = Some(v)] ELSE vals

\* notifyNext: remember the value of the producer at position i
NotifyNext(vals, i, v) == [vals EXCEPT ![i] = Some(v)]

\* variant: one position with a value is enough
AnyResponded(vals) == \E p \in Pos : vals[p] # NONE

\* variant: the count of positions still to respond never reaches zero
NeverResponded(vals) == FALSE

\* toRespond === 0: every position has received a value
AllResponded(vals) == \A p \in Pos : vals[p] # NONE

\* what a position of the values array holds when read
Undefined == [undefined |-> TRUE]
Field(slot) == IF slot = NONE THEN Undefined ELSE slot[1]

\* variant: topics and friends taken from each other's position
projectSwapped(vals) ==
    [user |-> Field(vals[1]), topics |-> Field(vals[3]),
     friends |-> Field(vals[2])]

\* map(([user, topics, friends]) => ({user, topics, friends}))
project(vals) ==
    [user |-> Field(vals[1]), topics |-> Field(vals[2]),
     friends |-> Field(vals[3])]

\* variant: a composite equal to the previous one is not delivered again
OnValueDistinct(o, c) ==
    IF o # << >> /\ Last(o) = c THEN o ELSE Append(o, c)

\* variant: the newest composite is put in front of the older ones
OnValueFront(o, c) == << c >> \o o

\* destination.next(composite): the consumer's onValue
OnValue(o, c) == Append(o, c)

\* variant: a value arrives and the component is not marked
MarkForCheckForgotten(m) == m

\* the async pipe marks the component for check
MarkForCheck(m) == m + 1

\* variant: the producer's error is replaced by a generic one
OnErrorWrapped(e) == "AggregationError"

\* destination.error(e): the consumer's onError
OnError(e) == e

\* variant: notifications are handed on whatever the state of the handle
ListeningAlways(i) == TRUE

\* an inner listener hands a notification on only while it is attached and
\* the outer subscriber is not stopped
Listening(i) == attached[i] /\ sub = "open"

\* variant: unsubscribe() runs the teardown on every call
AlreadyClosedNever(s) == FALSE

\* unsubscribe() returns at once on a closed subscription
AlreadyClosed(s) == s = "closed"

\* variant: the inner subscriptions are left as they are
DetachNone(att) == att

\* teardown: every inner subscription is unsubscribed
Detach(att) == [p \in Pos |-> FALSE]

\* teardown: the latest-value buffer goes with the subscriber
Discard(vals) == NoValues

\* ------------------------------------------------------------------- state
Init ==
    /\ source \in {"DataService", "store"}
    /\ pending = [p \in Pos |-> << >>]
    /\ ended = [p \in Pos |-> ""]
    /\ sub = "none"
    /\ closedBy = ""
    /\ attached = [p \in Pos |-> FALSE]
    /\ values = NoValues
    /\ active = 0
    /\ latestValue = NONE
    /\ marks = 0
    /\ out = << >>
    /\ recv = << >>
    /\ consumerErr = NOERR
    /\ consumerDone = FALSE
    /\ releaseCalls = 0
    /\ teardowns = 0
    /\ dropped = 0

\* the handle closes: teardown runs once
Close(why) ==
    /\ sub' = "closed"
    /\ closedBy' = why
    /\ attached' = Detach(attached)
    /\ values' = Discard(values)
    /\ teardowns' = teardowns + 1

\* a value reaches combineLatest: the snapshot is updated and, once every
\* position has a value, the projected composite goes to the async pipe, which
\* keeps it and marks the component for check
HandleNext(i, v) ==
    /\ LET vals == NotifyNext(values, i, v)
       IN  /\ values' = vals
           /\ recv' = Append(recv, <<i, v>>)
           /\ IF AllResponded(vals)
              THEN /\ out' = OnValue(out, project(vals))
                   /\ latestValue' = Some(project(vals))
                   /\ marks' = MarkForCheck(marks)
              ELSE UNCHANGED <<out, latestValue, marks>>
    /\ UNCHANGED <<sub, closedBy, attached, active, consumerErr, consumerDone,
                   teardowns, dropped>>

\* a producer's error reaches combineLatest: it goes to the consumer and the
\* subscription is torn down
HandleError(i, e) ==
    /\ consumerErr' = OnError(e)
    /\ Close("error")
    /\ UNCHANGED <<active, latestValue, marks, out, recv, consumerDone, dropped>>

\* variant: the composite stream also completes as soon as a producer
\* completes that has not delivered a value
HandleCompleteEager(i) ==
    /\ active' = active - 1
    /\ IF active - 1 = 0 \/ values[i] = NONE
       THEN /\ consumerDone' = TRUE
            /\ Close("complete")
       ELSE /\ attached' = [attached EXCEPT ![i] = FALSE]
            /\ UNCHANGED <<consumerDone, sub, closedBy, values, teardowns>>
    /\ UNCHANGED <<latestValue, marks, out, recv, consumerErr, dropped>>

\* a producer's completion reaches combineLatest: the composite stream
\* completes when the last active producer has completed
HandleComplete(i) ==
    /\ active' = active - 1
    /\ IF active - 1 = 0
       THEN /\ consumerDone' = TRUE
            /\ Close("complete")
       ELSE /\ attached' = [attached EXCEPT ![i] = FALSE]
            /\ UNCHANGED <<consumerDone, sub, closedBy, values, teardowns>>
    /\ UNCHANGED <<latestValue, marks, out, recv, consumerErr, dropped>>

\* a notification for a listener that is no longer attached (released,
\* errored, completed) is dropped
HandleDropped(n) ==
    /\ dropped' = IF n.kind = "N" THEN dropped + 1 ELSE dropped
    /\ UNCHANGED aggVars

\* a producer emits: its notification goes to the listener combineLatest
\* attached to it, if it still is attached
Emit(i, n) ==
    IF ~Listening(i) THEN HandleDropped(n)
    ELSE IF n.kind = "N" THEN HandleNext(i, n.val)
    ELSE IF n.kind = "E" THEN HandleError(i, n.val)
    ELSE HandleComplete(i)

\* async pipe, first render: subscribes to viewData$; combineLatest subscribes
\* to each argument in turn. A DataService producer is of(x): subscribing to
\* it starts its run (x, then complete).
Subscribe ==
    /\ sub = "none"
    /\ sub' = "open"
    /\ attached' = [p \in Pos |-> TRUE]
    /\ active' = N
    /\ pending' = IF source = "DataService"
                  THEN [p \in Pos |-> of(Producers[p])]
                  ELSE pending
    /\ UNCHANGED <<source, ended, closedBy, values, latestValue, marks, out,
                   recv, consumerErr, consumerDone, releaseCalls, teardowns,
                   dropped>>

\* an of(...) producer emits the next notification of its run
OfEmit(i) ==
    /\ source = "DataService"
    /\ pending[i] # << >>
    /\ Emit(i, Head(pending[i]))
    /\ pending' = [pending EXCEPT ![i] = Tail(@)]
    /\ ended' = [ended EXCEPT ![i] = IF Len(pending[i]) = 1 THEN "complete" ELSE @]
    /\ UNCHANGED <<source, releaseCalls>>

\* a long-lived producer emits a value
ProducerNext(i, v) ==
    /\ source = "store"
    /\ sub # "none"
    /\ ended[i] = ""
    /\ Len(recv) + dropped < MaxEmit
    /\ Emit(i, Next_(v))
    /\ UNCHANGED <<source, pending, ended, releaseCalls>>

\* a long-lived producer completes
ProducerComplete(i) ==
    /\ source = "store"
    /\ sub # "none"
    /\ ended[i] = ""
    /\ Emit(i, Complete_)
    /\ ended' = [ended EXCEPT ![i] = "complete"]
    /\ UNCHANGED <<source, pending, releaseCalls>>

\* a long-lived producer fails
ProducerError(i, e) ==
    /\ source = "store"
    /\ sub # "none"
    /\ ended[i] = ""
    /\ Emit(i, Error_(e))
    /\ ended' = [ended EXCEPT ![i] = e]
    /\ UNCHANGED <<source, pending, releaseCalls>>

\* release(handle): the async pipe unsubscribes when the component is
\* destroyed; unsubscribe() on a closed handle returns at once
Release ==
    /\ sub # "none"
    /\ releaseCalls < MaxRelease
    /\ releaseCalls' = releaseCalls + 1
    /\ IF AlreadyClosed(sub)
       THEN UNCHANGED <<sub, closedBy, attached, values, teardowns>>
       ELSE Close("release")
    /\ UNCHANGED <<source, pending, ended, active, latestValue, marks, out,
                   recv, consumerErr, consumerDone, dropped>>

Next ==
    \/ Subscribe
    \/ \E i \in Pos : OfEmit(i)
    \/ \E i \in Pos : \E v \in StoreValues[i] : ProducerNext(i, v)
    \/ \E i \in Pos : ProducerComplete(i)
    \/ \E i \in Pos : \E e \in Errors : ProducerError(i, e)
    \/ Release

Spec == Init /\ [][Next]_vars

\* of(x) emits x and completes during subscription: once subscribed, the run
\* of each DataService producer goes on to its end. Nothing obliges a
\* long-lived producer to emit, nor the component to be destroyed.
LiveSpec == Init /\ [][Next]_vars /\ \A i \in Pos : WF_vars(OfEmit(i))

\* ----------------------------------------------------------------- history
\* The claims are stated over the two histories, recv (what the producers
\* delivered to the aggregator) and out (what the consumer received), by
\* replaying recv.

\* the positions that have delivered a value among the first k of the log
Seen(log, k) == {log[j][1] : j \in 1..k}

\* the index of the delivery that populated every position, 0 if none has
PopulatedAt(log) ==
    IF \E k \in 1..Len(log) : Seen(log, k) = Pos
    THEN CHOOSE k \in 1..Len(log) :
             /\ Seen(log, k) = Pos
             /\ \A j \in 1..(k - 1) : Seen(log, j) # Pos
    ELSE 0

\* the most recent value position p delivered among the first k of the log
LatestOf(log, k, p) ==
    log[CHOOSE j \in 1..k :
            /\ log[j][1] = p
            /\ \A m \in (j + 1)..k : log[m][1] # p][2]

\* the record of the most recent values after the first k deliveries
SnapshotAt(log, k) ==
    [user |-> LatestOf(log, k, 1), topics |-> LatestOf(log, k, 2),
     friends |-> LatestOf(log, k, 3)]

\* the number of deliveries from the populating one on
Qualifying(log) ==
    IF PopulatedAt(log) = 0 THEN 0 ELSE Len(log) - PopulatedAt(log) + 1

\* what the consumer observes
observed == <<latestValue, marks, out, consumerErr, consumerDone>>

\* ------------------------------------------------------------------ claims

\* C1: while at least one role has not yet delivered a value, nothing has been
\* delivered to the consumer: no composite (so no partial record), no value in
\* the pipe, no mark, and no error unless a producer failed.
C1_NoCompositeBeforeAllEmitted ==
    Seen(recv, Len(recv)) # Pos =>
        /\ Len(out) = 0
        /\ latestValue = NONE
        /\ marks = 0
        /\ (closedBy # "error" => consumerErr = NOERR)

\* three values have been delivered and a role is still missing
C1_Witness ==
    /\ source = "store"
    /\ sub = "open"
    /\ Len(recv) = 3
    /\ Seen(recv, 3) # Pos
    /\ Len(out) = 0

\* C2: the newest composite holds, for every role, the most recent value that
\* role's producer had delivered when it was emitted; and each composite after
\* the first differs from its predecessor only in the role whose delivery
\* caused it.
C2_LatestOfEveryRole ==
    Len(out) > 0 =>
        /\ Last(out) = SnapshotAt(recv, Len(recv))
        /\ \A k \in 2..Len(out) :
               LET j == Len(recv) - Len(out) + k
                   i == recv[j][1]
               IN  /\ IF i = 1 THEN out[k].user = recv[j][2]
                               ELSE out[k].user = out[k - 1].user
                   /\ IF i = 2 THEN out[k].topics = recv[j][2]
                               ELSE out[k].topics = out[k - 1].topics
                   /\ IF i = 3 THEN out[k].friends = recv[j][2]
                               ELSE out[k].friends = out[k - 1].friends

\* after the first composite the user producer delivered Marcus
C2_Witness ==
    /\ Len(out) = 2
    /\ out[1].user = selectUser
    /\ recv[Len(recv)] = <<1, [id |-> 1, name |-> "Marcus"]>>
    /\ out[2].user = [id |-> 1, name |-> "Marcus"]
    /\ out[2].topics = out[1].topics
    /\ out[2].friends = out[1].friends

\* C3: the number of composites delivered equals the number of producer
\* values the aggregator received from the populating one on.
C3_OneCompositePerEmission == Len(out) = Qualifying(recv)

\* the same value was delivered again and gave a second, equal composite
C3_Witness ==
    /\ Len(recv) = 4
    /\ Len(out) = 2
    /\ out[1] = out[2]

\* C4: once release has been called the consumer observes nothing further,
\* whatever the producers emit.
C4_NothingAfterRelease ==
    [][releaseCalls > 0 => UNCHANGED observed]_vars

\* released after two of the of(...) values; the third, whose run had started
\* at subscription, was emitted afterwards and dropped
C4_Witness ==
    /\ source = "DataService"
    /\ closedBy = "release"
    /\ Len(recv) = 2
    /\ dropped = 1
    /\ Len(out) = 0
    /\ consumerErr = NOERR

\* C5: a release of an already released handle changes nothing, and raises no
\* error.
C5_ReleaseIdempotent ==
    [][(closedBy = "release" /\ releaseCalls' # releaseCalls) =>
           UNCHANGED <<source, pending, ended, sub, closedBy, attached, values,
                       active, latestValue, marks, out, recv, consumerErr,
                       consumerDone, teardowns, dropped>>]_vars

\* release was called twice and the teardown ran once
C5_Witness ==
    /\ releaseCalls = 2
    /\ closedBy = "release"
    /\ teardowns = 1
    /\ consumerErr = NOERR

C7_ErrorTerminates ==
    /\ [](consumerErr # NOERR =>
              /\ sub = "closed"
              /\ closedBy = "error"
              /\ \A p \in Pos : ~attached[p]
              /\ \E p \in Pos : ended[p] = consumerErr)
    /\ [][/\ \A p \in Pos :
                (attached[p] /\ sub = "open" /\ ended[p] = ""
                     /\ ended'[p] \in Errors)
                    => consumerErr' = ended'[p]
          /\ consumerErr # NOERR => UNCHANGED observed]_vars

\* a producer failed before every role had delivered; a later value was dropped
C7_Witness ==
    /\ consumerErr = "boom"
    /\ Len(recv) = 2
    /\ Seen(recv, 2) # Pos
    /\ Len(out) = 0
    /\ dropped > 0

\* C8: the k-th composite is the snapshot after the k-th delivery from the
\* populating one on: composites come in the order of the deliveries that
\* caused them, each with that delivery applied and no later one.
C8_OrderedByDelivery ==
    /\ Len(out) <= Qualifying(recv)
    /\ \A k \in 1..Len(out) :
           out[k] = SnapshotAt(recv, PopulatedAt(recv) + k - 1)

\* two different composites caused by two different producers
C8_Witness ==
    /\ Len(out) = 2
    /\ out[1] # out[2]
    /\ recv[3][1] # recv[4][1]

\* C9: with the DataService producers, at most one composite is delivered,
\* and once the three values have been delivered, in whatever order, exactly
\* one, with each field from the producer of the same role.
C9_DemoComposite ==
    source = "DataService" =>
        /\ Len(out) <= 1
        /\ Len(recv) = N =>
               /\ Len(out) = 1
               /\ out[1] = [user |-> selectUser, topics |-> selectTopics,
                            friends |-> selectFriends]
               /\ out[1].user = [id |-> 1, name |-> "Mark"]
               /\ Len(out[1].topics) = 6
               /\ Len(out[1].friends) = 2

\* the three values arrived in the order friends, topics, user
C9_Witness ==
    /\ source = "DataService"
    /\ Len(recv) = N
    /\ recv[1][1] = 3
    /\ recv[2][1] = 2
    /\ Len(out) = 1
    /\ consumerDone

\* C10: every composite delivered marks the component for check once and
\* becomes the pipe's value; the component is marked only then; and never
\* after the pipe has unsubscribed.
C10_MarkedOnEveryValue ==
    [][/\ Len(out') > Len(out) =>
              /\ marks' = marks + 1
              /\ latestValue' = << Last(out') >>
       /\ marks' # marks => (Len(out') = Len(out) + 1 /\ sub = "open")
       /\ releaseCalls > 0 => marks' = marks]_vars

\* a composite marked the component once; a value after destroy did not
C10_Witness ==
    /\ source = "store"
    /\ Len(out) = 1
    /\ marks = 1
    /\ latestValue = << out[1] >>
    /\ closedBy = "release"
    /\ dropped > 0

\* C12 as stated: the composite stream also completes as soon as a producer
\* completes without ever having emitted; so on an open aggregation every
\* producer whose completion has been received has delivered a value before.
C12_CompletesOnEmptyProducer ==
    sub = "open" =>
        \A p \in Pos : ~attached[p] => p \in Seen(recv, Len(recv))

\* C12, amended: the composite stream completes exactly when every producer
\* has completed, whether or not each had emitted. A completed producer's last
\* value stays in the snapshot and a later value of another producer still
\* gives a composite. With the of(...) producers the stream completes after
\* its single composite. Nothing is observed after completion.
C12_CompletionPolicy ==
    /\ [](/\ consumerDone <=> closedBy = "complete"
          /\ consumerDone => \A p \in Pos : ended[p] = "complete"
          /\ ((\A p \in Pos : ended[p] = "complete")
                  /\ closedBy \notin {"release", "error"}) => consumerDone
          /\ sub = "open" =>
                 \A p \in Seen(recv, Len(recv)) :
                     values[p] = << LatestOf(recv, Len(recv), p) >>
          /\ (source = "DataService" /\ consumerDone) => Len(out) = 1)
    /\ [][/\ (/\ sub = "open"
              /\ \E p \in Pos : ~attached[p]
              /\ Len(recv') > Len(recv)
              /\ PopulatedAt(recv') # 0)
                 => /\ Len(out') = Len(out) + 1
                    /\ Last(out') = SnapshotAt(recv', Len(recv'))
          /\ consumerDone => UNCHANGED observed]_vars

\* the user producer has completed after emitting; the stream is open, its
\* value is still in the snapshot and in the composites delivered
C12_Witness ==
    /\ source = "store"
    /\ sub = "open"
    /\ ended[1] = "complete"
    /\ ~attached[1]
    /\ values[1] = << selectUser >>
    /\ Len(out) = 2
    /\ recv[4][1] # 1
    /\ out[2].user = selectUser
    /\ ~consumerDone

\* composite c carries value v in the field of position i
Carries(c, i, v) ==
    IF i = 1 THEN c.user = v
    ELSE IF i = 2 THEN c.topics = v
    ELSE c.friends = v

\* C13: while the handle has not been released and no producer has failed,
\* every value a producer emits is received. Delivery being push, "eventually"
\* is "in the same step": once every producer has emitted, a composite has
\* been delivered and the newest composite carries the value received last.
\* The of(...) producers do emit, so a subscription to them leads to a
\* composite unless it is released first.
C13_EventuallyComposite ==
    /\ []((releaseCalls = 0 /\ consumerErr = NOERR) => dropped = 0)
    /\ [](Seen(recv, Len(recv)) = Pos =>
              /\ Len(out) > 0
              /\ Carries(Last(out), recv[Len(recv)][1], recv[Len(recv)][2]))
    /\ (source = "DataService" /\ sub = "open")
           ~> (Len(out) > 0 \/ releaseCalls > 0)

\* every producer has emitted, none has completed or failed, the handle is
\* held, and the composites have been delivered
C13_Witness ==
    /\ source = "store"
    /\ sub = "open"
    /\ releaseCalls = 0
    /\ consumerErr = NOERR
    /\ dropped = 0
    /\ \A p \in Pos : attached[p]
    /\ Seen(recv, Len(recv)) = Pos
    /\ Len(recv) = 4
    /\ Len(out) = 2

====
